---------------------------- MODULE Spec2Model ----------------------------
(***************************************************************************)
(* Scope 3 business-travel emissions calculator (src/main.py): the tiered  *)
(* emission-factor lookup, the "Calculate Emissions" handler and the       *)
(* session ledger it fills.                                                *)
(*                                                                         *)
(* Units.  Python floats are modelled as fixed-point integers:             *)
(*   distances in 1/100 km (calculate_distance rounds to 2 decimals),      *)
(*   emission factors in 1/1000 kg CO2e (the finest factor is 0.035),      *)
(*   emissions in 1/100 kg CO2e.                                           *)
(* A value n/m of emission units is rounded by Round2(n, m, up).  On an    *)
(* exact decimal tie the float the code rounds lies just below or just     *)
(* above the tie depending on its binary representation (124.7*0.15/3      *)
(* rounds to 6.23, 124.7*0.05 to 6.24), so the tie direction `up` is an    *)
(* input of the step, not a rule.                                          *)
(*                                                                         *)
(* The identity fields of a history entry (employee, purpose, dates,       *)
(* timestamp) are copied from the sidebar unchanged and take no part in    *)
(* any computation; entries carry the four emission amounts.               *)
(***************************************************************************)
EXTENDS Integers, Sequences, FiniteSets, TLC

VARIABLES
    emissions_data,           \* st.session_state.emissions_data (history)
    total_emissions,          \* st.session_state.total_emissions
    trip_details,             \* st.session_state.trip_details
    transport_emissions,      \* st.session_state.transport_emissions
    accommodation_emissions,  \* st.session_state.accommodation_emissions
    meal_emissions,           \* st.session_state.meal_emissions
    trip_data,                \* the trip list built by the last script run
    outcome,                  \* how the handler ended in the last script run
    report,                   \* how the Reports tab ended in the last script run
    arg_distance,             \* last argument `distance` of get_flight_emission_factor
    arg_travel_class,         \* last argument `travel_class`
    ret_factor                \* its return value

session == <<emissions_data, total_emissions, trip_details,
             transport_emissions, accommodation_emissions, meal_emissions>>
call    == <<arg_distance, arg_travel_class, ret_factor>>
vars    == <<emissions_data, total_emissions, trip_details,
             transport_emissions, accommodation_emissions, meal_emissions,
             trip_data, outcome, report,
             arg_distance, arg_travel_class, ret_factor>>

---------------------------------------------------------------------------
(* Bounds *)

MaxHistory == 2         \* submissions recorded in one session
MaxTrips == 2           \* "Number of Trips" chosen on the form (1..20 in the code)
MaxDistanceSteps == 40  \* 100 km grid points of the distances tried on the factor lookup

---------------------------------------------------------------------------
(* Static tables *)

\* Distances between the cities the model uses, in 1/100 km: the values
\* round(haversine_distance(...), 2) yields for these CITY_COORDINATES.
haversine_distance(from_city, to_city) ==
    LET pair == {from_city, to_city} IN
    CASE Cardinality(pair) = 1               -> 0
      [] pair = {"AHMEDABAD", "CHENNAI"}     -> 137181
      [] pair = {"AHMEDABAD", "VELLORE"}     -> 132011
      [] pair = {"AHMEDABAD", "LONDON"}      -> 684356
      [] pair = {"CHENNAI", "VELLORE"}       -> 12470
      [] pair = {"CHENNAI", "LONDON"}        -> 821085
      [] pair = {"LONDON", "VELLORE"}        -> 814630

\* The keys of CITY_COORDINATES the model uses (AHMEDABAD is the form's
\* default for both From and To: the first of the sorted keys).
CITY_COORDINATES == {"AHMEDABAD", "CHENNAI", "LONDON", "VELLORE"}

EMISSION_FACTORS ==
    ("FLIGHT - ECONOMY"  :> [short_haul |-> 150, medium_haul |-> 120, long_haul |-> 90]) @@
    ("FLIGHT - BUSINESS" :> [short_haul |-> 300, medium_haul |-> 240, long_haul |-> 180]) @@
    ("FLIGHT - FIRST"    :> [short_haul |-> 450, medium_haul |-> 360, long_haul |-> 270]) @@
    ("TRAIN - STANDARD"   :> 35) @@
    ("TRAIN - HIGH SPEED" :> 50) @@
    ("BUS - STANDARD"     :> 40) @@
    ("BUS - COACH"        :> 30) @@
    ("CAR - GASOLINE"     :> 120) @@
    ("CAR - DIESEL"       :> 140) @@
    ("CAR - HYBRID"       :> 80) @@
    ("CAR - ELECTRIC"     :> 50) @@
    ("TAXI"               :> 150) @@
    ("FERRY"              :> 190)

\* kg CO2e per night, in 1/100 kg
HOTEL_EMISSION_FACTORS ==
    ("BUDGET" :> 1500) @@ ("MID-RANGE" :> 2500) @@ ("LUXURY" :> 4000)

\* kg CO2e per meal, in 1/100 kg
MEAL_EMISSION_FACTORS ==
    ("VEGAN" :> 150) @@ ("VEGETARIAN" :> 250) @@ ("OMNIVORE" :> 400)

---------------------------------------------------------------------------
(* Pure functions *)

\* round(n/m, 2) of an amount of n/m hundredths, n >= 0, m > 0.
Round2(n, m, up) ==
    LET q == n \div m
        r == n % m
    IN  IF 2 * r < m THEN q
        ELSE IF 2 * r > m THEN q + 1
        ELSE IF up THEN q + 1 ELSE q

\* travel_mode.startswith("FLIGHT")
StartsWithFlight(travel_mode) ==
    Len(travel_mode) >= 6 /\ SubSeq(travel_mode, 1, 6) = "FLIGHT"

FlightCategoryOffByOne(distance) ==
    IF distance <= 80000 THEN "short_haul"
    ELSE IF distance <= 370000 THEN "medium_haul"
    ELSE "long_haul"

FlightCategory(distance) ==
    IF distance < 80000 THEN "short_haul"
    ELSE IF distance < 370000 THEN "medium_haul"
    ELSE "long_haul"

get_flight_emission_factor(distance, travel_class) ==
    LET category == FlightCategory(distance) IN
    IF travel_class = "FLIGHT - ECONOMY"
    THEN EMISSION_FACTORS["FLIGHT - ECONOMY"][category]
    ELSE IF travel_class = "FLIGHT - BUSINESS"
    THEN EMISSION_FACTORS["FLIGHT - BUSINESS"][category]
    ELSE EMISSION_FACTORS["FLIGHT - FIRST"][category]

calculate_distance(from_city, to_city) ==
    IF from_city \in CITY_COORDINATES /\ to_city \in CITY_COORDINATES
    THEN haversine_distance(from_city, to_city)
    ELSE 0

\* create_emissions_chart: the percentages divide by the sum of the three.
create_emissions_chart(transport_data, accommodation_data, meal_data) ==
    LET total == transport_data + accommodation_data + meal_data IN
    IF total = 0 THEN "ZeroDivisionError" ELSE "rendered"

\* The Reports tab of one script run, on the session state it finds.
ReportsTab(history, transport, accommodation, meal) ==
    IF history = << >> THEN "empty"
    ELSE create_emissions_chart(transport, accommodation, meal)

---------------------------------------------------------------------------
(* The "Calculate Emissions" handler, in the order of its statements.  An  *)
(* exception (KeyError on a table lookup, ZeroDivisionError on the         *)
(* passenger division) ends the handler where it is raised: `error` keeps  *)
(* its name and the remaining statements are skipped.                      *)

\* round((distance * emission_factor) / passengers, 2), passengers # 0
TripEmissionTruncated(distance, emission_factor, passengers, up) ==
    (distance * emission_factor) \div (1000 * passengers)

TripEmissionPerVehicle(distance, emission_factor, passengers, up) ==
    Round2(distance * emission_factor, 1000, up)

TripEmission(distance, emission_factor, passengers, up) ==
    Round2(distance * emission_factor, 1000 * passengers, up)

\* The locals the handler resets before its loops.
ResetTotalsKeepingLegs ==
    [error |-> "none", transport_emissions |-> 0, accommodation_emissions |-> 0,
     meal_emissions |-> 0, trip_details |-> trip_details]

ResetTotals ==
    [error |-> "none", transport_emissions |-> 0, accommodation_emissions |-> 0,
     meal_emissions |-> 0, trip_details |-> << >>]

\* One iteration of the transport loop.
TransportStep(acc, trip, up) ==
    IF acc.error # "none" THEN acc
    ELSE IF ~StartsWithFlight(trip.travel_mode)
            /\ trip.travel_mode \notin DOMAIN EMISSION_FACTORS
    THEN [acc EXCEPT !.error = "KeyError"]
    ELSE IF trip.passengers = 0
    THEN [acc EXCEPT !.error = "ZeroDivisionError"]
    ELSE
        LET emission_factor ==
                IF StartsWithFlight(trip.travel_mode)
                THEN get_flight_emission_factor(trip.distance, trip.travel_mode)
                ELSE EMISSION_FACTORS[trip.travel_mode]
            trip_emission ==
                TripEmission(trip.distance, emission_factor, trip.passengers, up)
        IN  [acc EXCEPT
                !.transport_emissions = @ + trip_emission,
                !.trip_details = Append(@,
                    [From |-> trip.from_city, To |-> trip.to_city,
                     Mode |-> trip.travel_mode, Distance |-> trip.distance,
                     Emission |-> trip_emission])]

RECURSIVE TransportLoop(_, _, _, _)
TransportLoop(acc, trips, ties, i) ==
    IF i > Len(trips) THEN acc
    ELSE TransportLoop(TransportStep(acc, trips[i], ties[i]), trips, ties, i + 1)

\* One iteration of the accommodation loop.
AccommodationStep(acc, stay) ==
    IF acc.error # "none" THEN acc
    ELSE IF stay.hotel_type \notin DOMAIN HOTEL_EMISSION_FACTORS
    THEN [acc EXCEPT !.error = "KeyError"]
    ELSE [acc EXCEPT !.accommodation_emissions =
                        @ + HOTEL_EMISSION_FACTORS[stay.hotel_type] * stay.nights]

RECURSIVE AccommodationLoop(_, _, _)
AccommodationLoop(acc, stays, i) ==
    IF i > Len(stays) THEN acc
    ELSE AccommodationLoop(AccommodationStep(acc, stays[i]), stays, i + 1)

\* One iteration of the meal loop: breakfast, lunch and dinner are looked up
\* in this order unless "None".
MealStep(acc, meal) ==
    LET chosen == {m \in {meal.breakfast, meal.lunch, meal.dinner} : m # "None"}
        Factor(m) == IF m = "None" THEN 0 ELSE MEAL_EMISSION_FACTORS[m]
    IN  IF acc.error # "none" THEN acc
        ELSE IF \E m \in chosen : m \notin DOMAIN MEAL_EMISSION_FACTORS
        THEN [acc EXCEPT !.error = "KeyError"]
        ELSE LET daily_meal_emission ==
                     Factor(meal.breakfast) + Factor(meal.lunch) + Factor(meal.dinner)
             IN  [acc EXCEPT !.meal_emissions = @ + daily_meal_emission * meal.nights]

RECURSIVE MealLoop(_, _, _)
MealLoop(acc, meals, i) ==
    IF i > Len(meals) THEN acc
    ELSE MealLoop(MealStep(acc, meals[i]), meals, i + 1)

\* The handler's locals when it reaches "Total emissions", or when it raised.
Calculation(trips, stays, meals, ties) ==
    MealLoop(
        AccommodationLoop(
            TransportLoop(ResetTotals, trips, ties, 1),
            stays, 1),
        meals, 1)

TotalWithoutMeals(transport, accommodation, meal) ==
    transport + accommodation

total_trip_emission(transport, accommodation, meal) ==
    transport + accommodation + meal

\* The entry appended to the history; round(x, 2) of an amount of hundredths.
Entry(transport, accommodation, meal) ==
    [Transport     |-> Round2(transport, 1, FALSE),
     Accommodation |-> Round2(accommodation, 1, FALSE),
     Meal          |-> Round2(meal, 1, FALSE),
     Total         |-> Round2(total_trip_emission(transport, accommodation, meal),
                              1, FALSE)]

\* Lines 451-454 run only when no statement before them raised: the four
\* "most recent" fields after the handler.
StoreResultsEagerly(calc) ==
    [transport_emissions     |-> calc.transport_emissions,
     accommodation_emissions |-> calc.accommodation_emissions,
     meal_emissions          |-> calc.meal_emissions,
     trip_details            |-> calc.trip_details]

StoreResults(calc) ==
    IF calc.error = "none"
    THEN [transport_emissions     |-> calc.transport_emissions,
          accommodation_emissions |-> calc.accommodation_emissions,
          meal_emissions          |-> calc.meal_emissions,
          trip_details            |-> calc.trip_details]
    ELSE [transport_emissions     |-> transport_emissions,
          accommodation_emissions |-> accommodation_emissions,
          meal_emissions          |-> meal_emissions,
          trip_details            |-> trip_details]

\* st.session_state.emissions_data.append(entry)
ReplaceLastEntry(history, entry) ==
    IF history = << >> THEN << entry >>
    ELSE [history EXCEPT ![Len(history)] = entry]

AppendEntry(history, entry) ==
    Append(history, entry)

\* st.session_state.total_emissions += total_trip_emission
AssignRunningTotal(running, total) ==
    total

AddToRunningTotal(running, total) ==
    running + total

---------------------------------------------------------------------------
(* Inputs *)

Trip(from_city, to_city, travel_mode, passengers, distance) ==
    [from_city |-> from_city, to_city |-> to_city, travel_mode |-> travel_mode,
     passengers |-> passengers, distance |-> distance]

Stay(location, hotel_type, nights) ==
    [location |-> location, hotel_type |-> hotel_type, nights |-> nights]

Meal(breakfast, lunch, dinner, nights) ==
    [breakfast |-> breakfast, lunch |-> lunch, dinner |-> dinner, nights |-> nights]

\* The tuple the Transport tab appends to trip_data for one trip: the
\* distance is the one calculate_distance gives for the two cities.
FormTrip(from_city, to_city, travel_mode, passengers) ==
    Trip(from_city, to_city, travel_mode, passengers,
         calculate_distance(from_city, to_city))

\* What the form shows on the first run: one trip, every selectbox on its
\* first option (From and To the same city), one passenger.
DefaultTrip == FormTrip("AHMEDABAD", "AHMEDABAD", "FLIGHT - ECONOMY", 1)

\* Trips the form can yield: cities of the registry, a mode of the factor
\* table, passengers >= 1.
FormTrips ==
    {DefaultTrip,
     FormTrip("AHMEDABAD", "LONDON", "FLIGHT - BUSINESS", 3)}

SeqsUpTo(S, n) == UNION {[1..k -> S] : k \in 1..n}

FormTripLists == SeqsUpTo(FormTrips, MaxTrips)

\* "Accommodation & Meals" of the form: the stay_data and meal_data lists it
\* builds together, one pair per overnight stay (0..30 stays, nights >= 1,
\* hotel types and meals from the tables, or "None" for a meal).
FormStays ==
    {[stay_data |-> << >>, meal_data |-> << >>],
     [stay_data |-> << Stay("LONDON", "BUDGET", 2) >>,
      meal_data |-> << Meal("VEGAN", "OMNIVORE", "None", 2) >>],
     [stay_data |-> << Stay("LONDON", "LUXURY", 1), Stay("CHENNAI", "MID-RANGE", 3) >>,
      meal_data |-> << Meal("None", "None", "None", 1),
                       Meal("VEGETARIAN", "VEGETARIAN", "OMNIVORE", 3) >>]}

\* Lists handed to the handler directly, not constrained by the form: modes
\* outside the factor table, a passenger count of 0, hotel types and meals
\* outside their tables.  1000 km and 124.7 km legs.
HandlerTripLists ==
    LET car1    == Trip("DELHI", "MUMBAI", "CAR - GASOLINE", 1, 100000)
        car4    == Trip("DELHI", "MUMBAI", "CAR - GASOLINE", 4, 100000)
        car0    == Trip("DELHI", "MUMBAI", "CAR - GASOLINE", 0, 100000)
        train   == Trip("VELLORE", "CHENNAI", "TRAIN - STANDARD", 1, 12470)
        economy == Trip("CHENNAI", "VELLORE", "FLIGHT - ECONOMY", 3, 12470)
        premium == Trip("CHENNAI", "VELLORE", "FLIGHT - PREMIUM", 2, 12470)
        rocket  == Trip("CHENNAI", "VELLORE", "ROCKET", 1, 12470)
    IN  {<< car1 >>, << car4 >>, << train, train >>, << economy >>, << premium >>,
         << rocket >>, << car0 >>, << car1, rocket >>, << train, car0 >>}

HandlerStays ==
    {[stay_data |-> << >>, meal_data |-> << >>],
     [stay_data |-> << Stay("LONDON", "BUDGET", 2) >>,
      meal_data |-> << Meal("VEGAN", "OMNIVORE", "None", 2) >>],
     [stay_data |-> << Stay("LONDON", "HOSTEL", 1) >>,
      meal_data |-> << Meal("VEGAN", "None", "None", 1) >>],
     [stay_data |-> << Stay("LONDON", "BUDGET", 1) >>,
      meal_data |-> << Meal("VEGAN", "KETO", "None", 1) >>]}

\* The directions the tied legs of `trips` can round in: one choice per leg
\* whose exact value lies halfway between two hundredths.
IsTie(trip) ==
    /\ trip.passengers > 0
    /\ StartsWithFlight(trip.travel_mode) \/ trip.travel_mode \in DOMAIN EMISSION_FACTORS
    /\ LET emission_factor ==
               IF StartsWithFlight(trip.travel_mode)
               THEN get_flight_emission_factor(trip.distance, trip.travel_mode)
               ELSE EMISSION_FACTORS[trip.travel_mode]
       IN  2 * ((trip.distance * emission_factor) % (1000 * trip.passengers))
               = 1000 * trip.passengers

TieBreaks(trips) ==
    {ties \in [1..Len(trips) -> BOOLEAN] :
        \A i \in 1..Len(trips) : ties[i] => IsTie(trips[i])}

\* Distances tried on get_flight_emission_factor, in 1/100 km: a 100 km grid
\* and the neighbours of the two thresholds.
CallDistances ==
    {k * 10000 : k \in 0..MaxDistanceSteps}
        \cup {79999, 80001, 369999, 370001}

CallClasses ==
    {"FLIGHT - ECONOMY", "FLIGHT - BUSINESS", "FLIGHT - FIRST", "FLIGHT - PREMIUM"}

---------------------------------------------------------------------------
(* Actions *)

Init ==
    /\ emissions_data = << >>
    /\ total_emissions = 0
    /\ trip_details = << >>
    /\ transport_emissions = 0
    /\ accommodation_emissions = 0
    /\ meal_emissions = 0
    /\ trip_data = << DefaultTrip >>
    /\ outcome = "none"
    /\ report = "empty"
    /\ arg_distance = 0
    /\ arg_travel_class = "None"
    /\ ret_factor = 0

\* One script run with the "Calculate Emissions" button pressed, on the
\* lists the run built.  The button is drawn after the Reports tab, so it
\* can be pressed only if the Reports tab of the previous run did not raise.
\* A successful handler ends in st.rerun(): the Reports tab is drawn again
\* on the new session state.  `outcome` is how the handler ended.
CalculateEmissions(trips, stays, meals, ties) ==
    /\ report # "ZeroDivisionError"
    /\ Len(emissions_data) < MaxHistory
    /\ trip_data' = trips
    /\ LET calc   == Calculation(trips, stays, meals, ties)
           stored == StoreResults(calc)
       IN  /\ transport_emissions' = stored.transport_emissions
           /\ accommodation_emissions' = stored.accommodation_emissions
           /\ meal_emissions' = stored.meal_emissions
           /\ trip_details' = stored.trip_details
           /\ outcome' = IF calc.error = "none" THEN "success" ELSE calc.error
           /\ IF calc.error = "none"
              THEN /\ emissions_data' =
                        AppendEntry(emissions_data,
                                    Entry(calc.transport_emissions,
                                          calc.accommodation_emissions,
                                          calc.meal_emissions))
                   /\ total_emissions' =
                        AddToRunningTotal(total_emissions,
                            total_trip_emission(calc.transport_emissions,
                                                calc.accommodation_emissions,
                                                calc.meal_emissions))
                   /\ report' = ReportsTab(emissions_data', transport_emissions',
                                           accommodation_emissions', meal_emissions')
              ELSE UNCHANGED <<emissions_data, total_emissions, report>>
    /\ UNCHANGED call

\* One script run without the button pressed (any other widget interaction
\* that leaves the trips as they are): the Reports tab is drawn on the
\* session state and the handler is skipped.
Rerun ==
    /\ report' = ReportsTab(emissions_data, transport_emissions,
                            accommodation_emissions, meal_emissions)
    /\ UNCHANGED <<session, trip_data, outcome, call>>

\* A call of get_flight_emission_factor.
Call(distance, travel_class) ==
    /\ arg_distance' = distance
    /\ arg_travel_class' = travel_class
    /\ ret_factor' = get_flight_emission_factor(distance, travel_class)
    /\ UNCHANGED <<session, trip_data, outcome, report>>

\* The session driven through the form.
Submit ==
    \E trips \in FormTripLists, form \in FormStays :
        \E ties \in TieBreaks(trips) :
            CalculateEmissions(trips, form.stay_data, form.meal_data, ties)

Next == Submit \/ Rerun

Spec == Init /\ [][Next]_vars

\* The handler on lists the form does not constrain.
Invoke ==
    \E trips \in HandlerTripLists, lists \in HandlerStays :
        \E ties \in TieBreaks(trips) :
            CalculateEmissions(trips, lists.stay_data, lists.meal_data, ties)

NextHandler == Invoke \/ Rerun

SpecHandler == Init /\ [][NextHandler]_vars

\* The factor lookup on its own.
Lookup ==
    \E distance \in CallDistances, travel_class \in CallClasses :
        Call(distance, travel_class)

NextFactor == Lookup

SpecFactor == Init /\ [][NextFactor]_vars

---------------------------------------------------------------------------
(* Properties *)

Failures == {"KeyError", "ZeroDivisionError"}

RECURSIVE SumTotals(_)
SumTotals(history) ==
    IF history = << >> THEN 0
    ELSE history[Len(history)].Total + SumTotals(SubSeq(history, 1, Len(history) - 1))

RECURSIVE SumEmissions(_)
SumEmissions(legs) ==
    IF legs = << >> THEN 0
    ELSE legs[Len(legs)].Emission + SumEmissions(SubSeq(legs, 1, Len(legs) - 1))

IsPrefix(a, b) == Len(a) <= Len(b) /\ SubSeq(b, 1, Len(a)) = a

Abs(x) == IF x < 0 THEN -x ELSE x

\* e hundredths is n/m hundredths rounded to the nearest hundredth
IsRounded(e, n, m) == 2 * Abs(e * m - n) <= m

\* C1: starting from the empty ledger, every successful submission adds
\* exactly one record to the history and no other step changes its length,
\* and the running total is always the sum of the records' Total Emissions.
C1_LedgerCountAndTotal ==
    /\ [](total_emissions = SumTotals(emissions_data))
    /\ [][Len(emissions_data') =
            Len(emissions_data) + (IF Submit /\ outcome' = "success" THEN 1 ELSE 0)]_vars

C1_Witness ==
    /\ Len(emissions_data) = 2
    /\ emissions_data[1].Total > 0
    /\ emissions_data[2].Total > emissions_data[1].Total
    /\ total_emissions = emissions_data[1].Total + emissions_data[2].Total

\* C2: the history before any step is a prefix of the history after it: no
\* record is removed, reordered or edited.
C2_AppendOnly ==
    [][IsPrefix(emissions_data, emissions_data')]_vars

C2_Witness ==
    /\ Len(emissions_data) = 2
    /\ emissions_data[1] # emissions_data[2]
    /\ outcome = "success"

\* C3: after a successful submission the itemized legs are those of the
\* submitted trips, one per trip and in their order, and the three stored
\* subtotals are the subtotals of the last record of the history.
C3_MostRecentOnly ==
    outcome = "success" =>
        /\ Len(trip_details) = Len(trip_data)
        /\ \A i \in 1..Len(trip_data) :
              /\ trip_details[i].From = trip_data[i].from_city
              /\ trip_details[i].To = trip_data[i].to_city
              /\ trip_details[i].Mode = trip_data[i].travel_mode
              /\ trip_details[i].Distance = trip_data[i].distance
        /\ emissions_data # << >>
        /\ transport_emissions = emissions_data[Len(emissions_data)].Transport
        /\ accommodation_emissions = emissions_data[Len(emissions_data)].Accommodation
        /\ meal_emissions = emissions_data[Len(emissions_data)].Meal

C3_Witness ==
    /\ outcome = "success"
    /\ Len(emissions_data) = 2
    /\ Len(trip_details) = 1
    /\ emissions_data[1].Transport > emissions_data[2].Transport
    /\ emissions_data[1].Meal > 0
    /\ meal_emissions = 0
    /\ transport_emissions = emissions_data[2].Transport

\* C4: a handler run that ends in an exception leaves the history, the
\* running total, the itemized legs and the three subtotals as they were.
C4_FailureCommitsNothing ==
    [][(Invoke /\ outcome' \in Failures) => UNCHANGED session]_vars

C4_Witness ==
    /\ outcome \in Failures
    /\ emissions_data # << >>
    /\ Len(trip_data) = 2
    /\ trip_data[1].travel_mode \in DOMAIN EMISSION_FACTORS
    /\ trip_data[1].passengers > 0
    /\ Len(trip_details) = 1

\* C5: in every record of the history, Total Emissions is the record's own
\* three subtotals added and rounded to 2 decimals.
C5_AggregateConsistency ==
    \A i \in 1..Len(emissions_data) :
        emissions_data[i].Total =
            Round2(emissions_data[i].Transport + emissions_data[i].Accommodation
                       + emissions_data[i].Meal, 1, FALSE)

C5_Witness ==
    \E i \in 1..Len(emissions_data) :
        /\ emissions_data[i].Transport > 0
        /\ emissions_data[i].Accommodation > 0
        /\ emissions_data[i].Meal > 0

\* C6: a handler run on trips with modes of the factor table, one of them
\* with passenger count 0, does not end in a division by zero, and when it
\* succeeds every leg is round(distance x factor / max(passengers, 1), 2).
C6_ZeroPassengersAsOne ==
    (/\ outcome # "none"
     /\ \A i \in 1..Len(trip_data) :
           trip_data[i].travel_mode \in DOMAIN EMISSION_FACTORS
     /\ \E i \in 1..Len(trip_data) : trip_data[i].passengers = 0)
    => /\ outcome # "ZeroDivisionError"
       /\ outcome = "success" =>
            \A i \in 1..Len(trip_data) :
                LET p == IF trip_data[i].passengers > 1
                         THEN trip_data[i].passengers ELSE 1
                    f == IF StartsWithFlight(trip_data[i].travel_mode)
                         THEN EMISSION_FACTORS[trip_data[i].travel_mode]
                                              [FlightCategory(trip_data[i].distance)]
                         ELSE EMISSION_FACTORS[trip_data[i].travel_mode]
                IN  IsRounded(trip_details[i].Emission,
                              trip_data[i].distance * f, 1000 * p)

\* C7: a handler run on a trip whose mode is not a key of the factor table
\* fails.
C7_UnknownModeFails ==
    (/\ outcome # "none"
     /\ \E i \in 1..Len(trip_data) :
           trip_data[i].travel_mode \notin DOMAIN EMISSION_FACTORS)
    => outcome \in Failures

C9_PerLegRounding ==
    (/\ outcome = "success"
     /\ \A i \in 1..Len(trip_data) :
           /\ trip_data[i].travel_mode \in DOMAIN EMISSION_FACTORS
           /\ trip_data[i].passengers >= 1)
    => /\ Len(trip_details) = Len(trip_data)
       /\ \A i \in 1..Len(trip_data) :
             LET f == IF StartsWithFlight(trip_data[i].travel_mode)
                      THEN EMISSION_FACTORS[trip_data[i].travel_mode]
                                           [FlightCategory(trip_data[i].distance)]
                      ELSE EMISSION_FACTORS[trip_data[i].travel_mode]
             IN  /\ IsRounded(trip_details[i].Emission,
                              trip_data[i].distance * f,
                              1000 * trip_data[i].passengers)
                 /\ (/\ trip_data[i].travel_mode = "CAR - GASOLINE"
                     /\ trip_data[i].distance = 100000)
                    => /\ trip_data[i].passengers = 1
                          => trip_details[i].Emission = 12000
                       /\ trip_data[i].passengers = 4
                          => trip_details[i].Emission = 3000
       /\ transport_emissions = SumEmissions(trip_details)

\* Two 124.7 km train legs of 4.3645 each: 4.36 + 4.36 = 8.72, where the sum
\* rounded once would be 8.73.
C9_Witness ==
    /\ outcome = "success"
    /\ Len(trip_data) = 2
    /\ \A i \in 1..2 : /\ trip_data[i].travel_mode = "TRAIN - STANDARD"
                       /\ trip_data[i].distance = 12470
                       /\ trip_data[i].passengers = 1
    /\ transport_emissions = 872
    /\ Round2(2 * 12470 * 35, 1000, FALSE) = 873

\* C10: whenever the history is not empty, the sum of the three most recent
\* subtotals is not zero, so the Reports tab's percentages are defined.
C10_ChartTotalNonZero ==
    emissions_data # << >> =>
        /\ transport_emissions + accommodation_emissions + meal_emissions # 0
        /\ report # "ZeroDivisionError"

===========================================================================
